---- MODULE Spec2Model ----
(***************************************************************************)
(* Retirement calculator (src/main.py): the month-by-month depletion       *)
(* simulator, the closed-form present value and the bisection solver.      *)
(*                                                                         *)
(* Numbers.  The program computes in binary floating point.  Here every    *)
(* amount of money is an integer number of currency units and every rate   *)
(* or growth factor is an integer number of 1/Scale (fixed point); each    *)
(* product or quotient is rounded to the nearest representable value, as   *)
(* a floating-point operation is.  A duration in years is kept as an exact *)
(* fraction [num, den] (the program divides a month count by 12).          *)
(* An Optional value is <<>> (None) or <<v>>.                              *)
(***************************************************************************)
EXTENDS Integers, Sequences, FiniteSets, TLC

\* Resolution of rates and factors: 1/Scale.
Scale == 10000

None == <<>>
Some(v) == <<v>>
Val(o) == o[1]

Abs(x) == IF x < 0 THEN -x ELSE x
Max(a, b) == IF a >= b THEN a ELSE b

\* n / d rounded to the nearest integer (d # 0).
RoundDiv(n, d) ==
  IF d > 0 THEN (2 * n + d) \div (2 * d) ELSE (2 * (-n) + (-d)) \div (2 * (-d))

\* a * f with f a fixed-point factor: a * f / Scale, rounded to nearest.
\* (Split so that the intermediate product stays within 32-bit integers.)
MulF(a, f) ==
  IF f >= 0
  THEN (a \div Scale) * f + (((a % Scale) * f + (Scale \div 2)) \div Scale)
  ELSE -((a \div Scale) * (-f) + (((a % Scale) * (-f) + ((Scale - 1) \div 2)) \div Scale))

\* a / b as a fixed-point factor (b # 0).
DivF(a, b) == RoundDiv(a * Scale, b)

\* base ** n for a fixed-point base and an integer n >= 0.
RECURSIVE PowF(_, _)
PowF(base, n) ==
  IF n <= 0 THEN Scale
  ELSE LET h == PowF(base, n \div 2)
           sq == MulF(h, h)
       IN  IF n % 2 = 0 THEN sq ELSE MulF(sq, base)

\* base ** (-n): the reciprocal of base ** n.
PowNegF(base, n) == DivF(Scale, PowF(base, n))

\* The largest factor a twelfth root is searched up to ((1.2) ** 12 > 8.9).
MaxRoot == Scale + Scale \div 5

\* The least y in lo..hi with y ** 12 >= x (hi when there is none).
RECURSIVE Root12Search(_, _, _)
Root12Search(x, lo, hi) ==
  IF lo >= hi THEN hi
  ELSE LET mid == (lo + hi) \div 2
       IN  IF PowF(mid, 12) >= x
           THEN Root12Search(x, lo, mid)
           ELSE Root12Search(x, mid + 1, hi)

\* x ** (1/12) for a fixed-point x >= 0: the factor whose 12th power is nearest x.
Root12(x) ==
  LET y == Root12Search(x, 0, MaxRoot)
  IN  IF y > 0 /\ x - PowF(y - 1, 12) <= PowF(y, 12) - x THEN y - 1 ELSE y


(***************************************************************************)
(* PlanParams and its derived rates.                                       *)
(***************************************************************************)

\* True when a float is "truthy" as an Optional: neither None nor 0.0.
Truthy(o) == o # None /\ Val(o) # 0

monthly_nominal_return(p) ==
  LET r0 == p.annual_return_nominal
      r  == IF Truthy(p.effective_tax_rate_on_returns)
            THEN MulF(r0, Scale - Val(p.effective_tax_rate_on_returns))
            ELSE r0
  IN  Root12(Scale + r) - Scale

annual_real_rate(p) ==
  LET r0 == p.annual_return_nominal
      r  == IF Truthy(p.effective_tax_rate_on_returns)
            THEN MulF(r0, Scale - Val(p.effective_tax_rate_on_returns))
            ELSE r0
      g  == p.annual_inflation
  IN  DivF(Scale + r, Scale + g) - Scale

monthly_real_rate(p) == Root12(Scale + annual_real_rate(p)) - Scale

(***************************************************************************)
(* simulate_retirement: the locals of one call, and one loop iteration.    *)
(***************************************************************************)

\* A duration of n months, in years: n / 12.0.
Years(n) == [num |-> n, den |-> 12]

\* a > b for a fraction a and an integer b.
FracGe(a, b) == a.num >= b * a.den
FracGt(a, b) == a.num > b * a.den
FracLe(a, b) == a.num <= b * a.den
\* a <= b for two fractions of positive denominators.
FracLeq(a, b) == a.num * b.den <= b.num * a.den

\* The locals after lines 42-50; m is the last month the loop has run.
SimEntry(p, max_years, adjust_withdrawal_for_inflation) ==
  [ balance               |-> p.current_savings,
    m_return              |-> monthly_nominal_return(p),
    monthly_withdrawal    |-> p.monthly_withdrawal,
    yearly_withdrawal     |-> p.yearly_withdrawal,
    months                |-> max_years * 12,
    snapshots             |-> <<>>,
    monthly_inflation     |-> Root12(Scale + p.annual_inflation) - Scale,
    yearly_inflation      |-> p.annual_inflation,
    adj_yearly_withdrawal |-> IF p.yearly_withdrawal # None
                              THEN Val(p.yearly_withdrawal) ELSE 0,
    adjust                |-> adjust_withdrawal_for_inflation,
    m                     |-> 0 ]

\* range(1, months + 1) has a month after f.m.
HasNextMonth(f) == f.m < f.months

\* m % 12 == 1: the month of the yearly withdrawal.
IsJanuary(m) == m % 12 = 1

\* Lines 54-58: the running withdrawals are scaled in the locals; params is
\* read, never assigned.
InflationAdjustWriteBack(p, f, m) ==
  IF f.adjust /\ m > 1
  THEN LET w == MulF(f.monthly_withdrawal, Scale + f.monthly_inflation)
       IN  [ p |-> [p EXCEPT !.monthly_withdrawal = w],
             f |-> [f EXCEPT !.monthly_withdrawal = w,
                             !.adj_yearly_withdrawal =
                                IF f.yearly_withdrawal # None /\ IsJanuary(m)
                                THEN MulF(@, Scale + f.yearly_inflation) ELSE @] ]
  ELSE [p |-> p, f |-> f]

InflationAdjust(p, f, m) ==
  IF f.adjust /\ m > 1
  THEN [ p |-> p,
         f |-> [f EXCEPT !.monthly_withdrawal = MulF(@, Scale + f.monthly_inflation),
                         !.adj_yearly_withdrawal =
                            IF f.yearly_withdrawal # None /\ IsJanuary(m)
                            THEN MulF(@, Scale + f.yearly_inflation) ELSE @] ]
  ELSE [p |-> p, f |-> f]

\* balance - amount, with the operands in the wrong order.
SubtractSwapped(balance, amount) == amount - balance

\* balance -= amount (lines 62, 64, 76, 78).
Subtract(balance, amount) == balance - amount

\* Lines 62-64 and 76-78: the monthly withdrawal and, in January, the yearly one.
Withdraw(f, m) ==
  LET b1 == Subtract(f.balance, f.monthly_withdrawal)
  IN  IF f.yearly_withdrawal # None /\ IsJanuary(m)
      THEN Subtract(b1, f.adj_yearly_withdrawal)
      ELSE b1

TimingSwapped(p, when) ==
  (when = "before_growth" /\ p.withdrawal_timing = "end")
    \/ (when = "after_growth" /\ p.withdrawal_timing = "start")

\* Lines 61 and 75: whether this timing withdraws before or after the growth.
WithdrawsAt(p, when) ==
  (when = "before_growth" /\ p.withdrawal_timing = "start")
    \/ (when = "after_growth" /\ p.withdrawal_timing = "end")

\* Line 61-68: any other timing raises ValueError.
ValidTiming(p) == p.withdrawal_timing \in {"start", "end"}

\* Line 72: balance *= (1 + m_return).
Grow(balance, m_return) == MulF(balance, Scale + m_return)

\* Line 80.
Age(p, m) == IF p.start_age # None
             THEN Some([num |-> Val(p.start_age) * 12 + (m - 1), den |-> 12])
             ELSE None

\* Lines 81-88.
Snapshot(p, f, m, investment_return) ==
  [ month_index        |-> m,
    age                |-> Age(p, m),
    balance            |-> f.balance,
    monthly_withdrawal |-> f.monthly_withdrawal,
    yearly_withdrawal  |-> IF f.yearly_withdrawal # None /\ IsJanuary(m)
                           THEN f.adj_yearly_withdrawal ELSE 0,
    monthly_return     |-> investment_return ]

DepletedStrict(balance) == balance < 0

\* Line 90.
Depleted(balance) == balance <= 0

DepletedResultOffByOne(f, m) ==
  [ depleted      |-> TRUE,
    months_lasted |-> m,
    years_lasted  |-> Years(m),
    final_balance |-> f.balance,
    snapshots     |-> f.snapshots ]

\* Lines 91-98.
DepletedResult(f, m) ==
  [ depleted      |-> TRUE,
    months_lasted |-> m - 1,
    years_lasted  |-> Years(m - 1),
    final_balance |-> f.balance,
    snapshots     |-> f.snapshots ]

\* Lines 100-106.
NotDepletedResult(f) ==
  [ depleted      |-> FALSE,
    months_lasted |-> f.months,
    years_lasted  |-> Years(f.months),
    final_balance |-> f.balance,
    snapshots     |-> f.snapshots ]

Returned(v) == [kind |-> "returned", value |-> v]
Raised(e)   == [kind |-> "raised", error |-> e]

\* Lines 60-68 and 75-78: the withdrawal, if this timing makes it at `when`.
WithdrawIf(p, when, f, m) ==
  IF WithdrawsAt(p, when) THEN [f EXCEPT !.balance = Withdraw(f, m)] ELSE f

\* Lines 81-98: the snapshot is appended, then the balance is tested.
RecordMonth(p, f, m, investment_return) ==
  [ p |-> p,
    f |-> [f EXCEPT !.snapshots = Append(@, Snapshot(p, f, m, investment_return)),
                    !.m = m],
    outcome |-> IF Depleted(f.balance)
                THEN Some(Returned(DepletedResult(
                       [f EXCEPT !.snapshots =
                                   Append(@, Snapshot(p, f, m, investment_return))], m)))
                ELSE None ]

\* Lines 71-78: growth on the balance f holds, then the end-of-month withdrawal.
GrowMonth(p, f, m) ==
  RecordMonth(p,
              WithdrawIf(p, "after_growth",
                         [f EXCEPT !.balance = Grow(@, f.m_return)], m),
              m,
              Grow(f.balance, f.m_return) - f.balance)

\* Lines 60-68, after the inflation adjustment adj = [p, f].
TimingBranch(adj, m) ==
  IF ~ValidTiming(adj.p)
  THEN [p |-> adj.p, f |-> [adj.f EXCEPT !.m = m],
        outcome |-> Some(Raised("ValueError"))]
  ELSE GrowMonth(adj.p, WithdrawIf(adj.p, "before_growth", adj.f, m), m)

\* One iteration of the loop of lines 52-98, for month f.m + 1.  The outcome
\* is None while the loop goes on, and the call's outcome when it ends here.
LoopBody(p, f) == TimingBranch(InflationAdjust(p, f, f.m + 1), f.m + 1)

\* At most k further iterations of the loop, from r = [p, f, outcome]: none once
\* the call has ended or the months are used up.  (The k iterations are run as
\* two halves, which keeps the evaluation shallow.)
RECURSIVE RunFor(_, _)
RunFor(r, k) ==
  IF k <= 0 \/ r.outcome # None \/ ~HasNextMonth(r.f) THEN r
  ELSE IF k = 1 THEN LoopBody(r.p, r.f)
  ELSE RunFor(RunFor(r, k \div 2), k - (k \div 2))

\* Lines 90-106: the outcome of the loop that has stopped at r.
LoopOutcome(r) ==
  IF r.outcome # None THEN Val(r.outcome) ELSE Returned(NotDepletedResult(r.f))

\* The loop run to its end from locals f: the outcome of the call.
RunLoop(p, f) == LoopOutcome(RunFor([p |-> p, f |-> f, outcome |-> None], f.months))

\* simulate_retirement(params, max_years, adjust_withdrawal_for_inflation).
simulate_retirement(p, max_years, adjust_withdrawal_for_inflation) ==
  RunLoop(p, SimEntry(p, max_years, adjust_withdrawal_for_inflation))

\* years_until_depletion(params, max_years): sim["years_lasted"] either way.
years_until_depletion(p, max_years) ==
  simulate_retirement(p, max_years, TRUE).value.years_lasted


(***************************************************************************)
(* required_initial_for_horizon_closed_form                                *)
(***************************************************************************)

\* 1e-9 is 1 / RateEpsInv (lines 121 and 132).
RateEpsInv == 1000000000

\* abs(x) < 1e-9 for a fixed-point rate x.
NearZero(x) == Abs(x) <= (Scale - 1) \div RateEpsInv

\* Lines 121-124 and 132-135: PMT * n at a zero rate, else the annuity value
\* PMT * (1 - (1 + i) ** (-n)) / i.
AnnuityPV(PMT, i, n) ==
  IF NearZero(i) THEN PMT * n
  ELSE RoundDiv(PMT * (Scale - PowNegF(Scale + i, n)), i)

\* years if years is not None else params.target_years (lines 113, 147).
HorizonOf(p, years) == IF years # None THEN Val(years) ELSE p.target_years

required_initial_for_horizon_closed_form(p, years) ==
  LET N_years    == HorizonOf(p, years)
      n_months   == N_years * 12
      i_m        == monthly_real_rate(p)
      PV_monthly == AnnuityPV(p.monthly_withdrawal, i_m, n_months)
      PV_yearly  == IF p.yearly_withdrawal # None /\ Val(p.yearly_withdrawal) > 0
                    THEN AnnuityPV(Val(p.yearly_withdrawal),
                                   PowF(Scale + i_m, 12) - Scale, N_years)
                    ELSE 0
  IN  PV_monthly + PV_yearly

(***************************************************************************)
(* required_initial_for_horizon_via_simulation                             *)
(***************************************************************************)

\* A tolerance is a fraction [num, den]; the defaults of line 142.
DefaultTol == [num |-> 1, den |-> 1000000]
DefaultMaxIter == 200

\* 0.5 * (low + high).
Midpoint(low, high) == RoundDiv(low + high, 2)

\* abs(high - low) <= tol * max(1.0, mid) (line 160).
Converged(low, high, mid, tol) ==
  Abs(high - low) <= (tol.num * Max(1, mid)) \div tol.den

SolveEntryNoDoubling(p, years, tol, max_iter) ==
  [ N_years  |-> HorizonOf(p, years),
    low      |-> 0,
    high     |-> Max(1, required_initial_for_horizon_closed_form(p, Some(HorizonOf(p, years)))),
    tol      |-> tol,
    max_iter |-> max_iter,
    it       |-> 0,
    runs     |-> 0,
    high0    |-> Max(1, required_initial_for_horizon_closed_form(p, Some(HorizonOf(p, years)))),
    prev_low |-> 0,
    prev_high |-> 0,
    low_set  |-> FALSE,
    high_set |-> FALSE,
    converged |-> FALSE ]

\* The locals after lines 147-149.  it counts the iterations begun; runs, high0,
\* prev_low, prev_high, low_set, high_set and converged only record what the
\* loop did: the simulations run, the initial high, the bracket before the
\* latest iteration, whether the loop has assigned low or high, and whether the
\* test of line 160 has succeeded.
SolveEntry(p, years, tol, max_iter) ==
  [ N_years  |-> HorizonOf(p, years),
    low      |-> 0,
    high     |-> Max(1, required_initial_for_horizon_closed_form(p, Some(HorizonOf(p, years))) * 2),
    tol      |-> tol,
    max_iter |-> max_iter,
    it       |-> 0,
    runs     |-> 0,
    high0    |-> Max(1, required_initial_for_horizon_closed_form(p, Some(HorizonOf(p, years))) * 2),
    prev_low |-> 0,
    prev_high |-> 0,
    low_set  |-> FALSE,
    high_set |-> FALSE,
    converged |-> FALSE ]

HasNextIterationOffByOne(s) == s.it <= s.max_iter

\* range(max_iter) has an iteration after the s.it already begun.
HasNextIteration(s) == s.it < s.max_iter

\* PlanParams(**{**params.__dict__, "current_savings": mid}) (line 153).
TestParams(p, mid) == [p EXCEPT !.current_savings = mid]

NarrowSwapped(s, mid, years_lasted) ==
  IF FracGt(years_lasted, s.N_years)
  THEN [s EXCEPT !.low = mid, !.low_set = TRUE]
  ELSE [s EXCEPT !.high = mid, !.high_set = TRUE]

\* Lines 156-159.
Narrow(s, mid, years_lasted) ==
  IF FracGt(years_lasted, s.N_years)
  THEN [s EXCEPT !.high = mid, !.high_set = TRUE]
  ELSE [s EXCEPT !.low = mid, !.low_set = TRUE]

\* Line 160-161, after the bracket was narrowed to s.
SolveCheck(s, mid) ==
  IF Converged(s.low, s.high, mid, s.tol)
  THEN [s |-> [s EXCEPT !.converged = TRUE], outcome |-> Some(Returned(mid))]
  ELSE [s |-> s, outcome |-> None]

\* Lines 155-161, given the outcome sim of the simulation of mid.
SolveAfterSim(s, mid, sim) ==
  IF sim.kind = "raised"
  THEN [s |-> s, outcome |-> Some(sim)]
  ELSE SolveCheck(Narrow(s, mid, sim.value.years_lasted), mid)

\* One iteration of the loop of lines 151-161.  The outcome is None while the
\* loop goes on, and the call's outcome when it ends here.
SolveBody(p, s) ==
  SolveAfterSim([s EXCEPT !.it = @ + 1, !.runs = @ + 1,
                          !.prev_low = s.low, !.prev_high = s.high],
                Midpoint(s.low, s.high),
                simulate_retirement(TestParams(p, Midpoint(s.low, s.high)),
                                    s.N_years + 5, TRUE))

\* Line 162.
SolveExhausted(s) == Returned(Midpoint(s.low, s.high))


(***************************************************************************)
(* The program state: the caller's plan, the running call and its locals.  *)
(***************************************************************************)
VARIABLES
  params,   \* the PlanParams object the caller holds and passes in
  pc,       \* "idle", "sim" (in simulate_retirement) or "solve" (in the solver)
  call,     \* None or <<the function called and its arguments at entry>>
  frame,    \* None or <<the locals of simulate_retirement>>
  solver,   \* None or <<the locals of required_initial_..._via_simulation>>
  ret       \* None while a call runs, else <<its outcome>>

vars == <<params, pc, call, frame, solver, ret>>

\* Bounds of the explored inputs.
MaxYears == 2
MaxIterArg == 20

Savings == {0, 49000, 60000, 120000}
Timings == {"start", "end", "middle"}
YearlyOptions == {None, Some(30000)}
\* Return, inflation, tax haircut and start age that go together in a plan.
RateScenarios ==
  { [r |-> 0,    g |-> 0,   tax |-> None,       age |-> None],
    [r |-> 1250, g |-> 470, tax |-> None,       age |-> Some(80)],
    [r |-> 1250, g |-> 0,   tax |-> Some(1500), age |-> None] }

Plan(s, w, sc, t, y, ty) ==
  [ current_savings               |-> s,
    annual_return_nominal         |-> sc.r,
    annual_inflation              |-> sc.g,
    monthly_withdrawal            |-> w,
    target_years                  |-> ty,
    withdrawal_timing             |-> t,
    effective_tax_rate_on_returns |-> sc.tax,
    start_age                     |-> sc.age,
    yearly_withdrawal             |-> y ]

Plans ==
  { Plan(s, 4000, sc, t, y, 1) :
      s \in Savings, sc \in RateScenarios, t \in Timings, y \in YearlyOptions }

MaxYearsArgs == 0..MaxYears
SolverYears == {None, Some(0)}
Tols == {[num |-> 0, den |-> 1], [num |-> 1, den |-> 10]}
MaxIters == {0, 3, MaxIterArg}

\* What the caller gets back: years_until_depletion returns sim["years_lasted"]
\* (lines 167-172); the other functions return their own value.
ReturnTo(c, outcome) ==
  IF c.fn = "years_until_depletion" /\ outcome.kind = "returned"
  THEN Returned(outcome.value.years_lasted)
  ELSE outcome

Init ==
  /\ params \in Plans
  /\ pc = "idle"
  /\ call = None
  /\ frame = None
  /\ solver = None
  /\ ret = None

\* The caller builds a plan that differs from its own in the savings only.
SetSavings(v) ==
  /\ pc = "idle"
  /\ v # params.current_savings
  /\ params' = [params EXCEPT !.current_savings = v]
  /\ call' = None
  /\ ret' = None
  /\ frame' = None
  /\ solver' = None
  /\ UNCHANGED pc

\* The caller builds a plan that differs from its own in the timing only.
SetTiming(t) ==
  /\ pc = "idle"
  /\ t # params.withdrawal_timing
  /\ params' = [params EXCEPT !.withdrawal_timing = t]
  /\ call' = None
  /\ ret' = None
  /\ frame' = None
  /\ solver' = None
  /\ UNCHANGED pc

CallSimulate(max_years, adjust) ==
  /\ pc = "idle"
  /\ pc' = "sim"
  /\ call' = Some([fn |-> "simulate_retirement", params |-> params,
                   max_years |-> max_years, adjust |-> adjust])
  /\ frame' = Some(SimEntry(params, max_years, adjust))
  /\ ret' = None
  /\ solver' = None
  /\ UNCHANGED params

CallYearsUntilDepletion(max_years) ==
  /\ pc = "idle"
  /\ pc' = "sim"
  /\ call' = Some([fn |-> "years_until_depletion", params |-> params,
                   max_years |-> max_years, adjust |-> TRUE])
  /\ frame' = Some(SimEntry(params, max_years, TRUE))
  /\ ret' = None
  /\ solver' = None
  /\ UNCHANGED params

\* A month that neither depletes the balance nor raises.
SimMonth ==
  /\ pc = "sim"
  /\ HasNextMonth(Val(frame))
  /\ LET r == LoopBody(params, Val(frame))
     IN  /\ r.outcome = None
         /\ params' = r.p
         /\ frame' = Some(r.f)
  /\ UNCHANGED <<pc, call, solver, ret>>

\* The month whose balance is <= 0: the call returns.
SimDepleted ==
  /\ pc = "sim"
  /\ HasNextMonth(Val(frame))
  /\ LET r == LoopBody(params, Val(frame))
     IN  /\ r.outcome # None
         /\ Val(r.outcome).kind = "returned"
         /\ params' = r.p
         /\ frame' = Some(r.f)
         /\ ret' = Some(ReturnTo(Val(call), Val(r.outcome)))
  /\ pc' = "idle"
  /\ UNCHANGED <<call, solver>>

\* The ValueError of line 68.
SimRaise ==
  /\ pc = "sim"
  /\ HasNextMonth(Val(frame))
  /\ LET r == LoopBody(params, Val(frame))
     IN  /\ r.outcome # None
         /\ Val(r.outcome).kind = "raised"
         /\ params' = r.p
         /\ frame' = Some(r.f)
         /\ ret' = Some(Val(r.outcome))
  /\ pc' = "idle"
  /\ UNCHANGED <<call, solver>>

\* The loop ran out of months: the return of lines 100-106.
SimExit ==
  /\ pc = "sim"
  /\ ~HasNextMonth(Val(frame))
  /\ ret' = Some(ReturnTo(Val(call), Returned(NotDepletedResult(Val(frame)))))
  /\ pc' = "idle"
  /\ UNCHANGED <<params, call, frame, solver>>

CallClosedForm(years) ==
  /\ pc = "idle"
  /\ call' = Some([fn |-> "required_initial_for_horizon_closed_form",
                   params |-> params, years |-> years])
  /\ ret' = Some(Returned(required_initial_for_horizon_closed_form(params, years)))
  /\ frame' = None
  /\ solver' = None
  /\ UNCHANGED <<params, pc>>

CallSolver(years, tol, max_iter) ==
  /\ pc = "idle"
  /\ pc' = "solve"
  /\ call' = Some([fn |-> "required_initial_for_horizon_via_simulation",
                   params |-> params, years |-> years, tol |-> tol,
                   max_iter |-> max_iter])
  /\ solver' = Some(SolveEntry(params, years, tol, max_iter))
  /\ ret' = None
  /\ frame' = None
  /\ UNCHANGED params

\* An iteration after which the bracket is still too wide.
SolveIterate ==
  /\ pc = "solve"
  /\ HasNextIteration(Val(solver))
  /\ LET r == SolveBody(params, Val(solver))
     IN  /\ r.outcome = None
         /\ solver' = Some(r.s)
  /\ UNCHANGED <<params, pc, call, frame, ret>>

\* The iteration that meets the tolerance: return mid (line 161).
SolveConverged ==
  /\ pc = "solve"
  /\ HasNextIteration(Val(solver))
  /\ LET r == SolveBody(params, Val(solver))
     IN  /\ r.outcome # None
         /\ Val(r.outcome).kind = "returned"
         /\ solver' = Some(r.s)
         /\ ret' = r.outcome
  /\ pc' = "idle"
  /\ UNCHANGED <<params, call, frame>>

\* The simulation raised: the solver does not catch it.
SolveRaise ==
  /\ pc = "solve"
  /\ HasNextIteration(Val(solver))
  /\ LET r == SolveBody(params, Val(solver))
     IN  /\ r.outcome # None
         /\ Val(r.outcome).kind = "raised"
         /\ solver' = Some(r.s)
         /\ ret' = r.outcome
  /\ pc' = "idle"
  /\ UNCHANGED <<params, call, frame>>

\* range(max_iter) is used up: the return of line 162.
SolveExit ==
  /\ pc = "solve"
  /\ ~HasNextIteration(Val(solver))
  /\ ret' = Some(SolveExhausted(Val(solver)))
  /\ pc' = "idle"
  /\ UNCHANGED <<params, call, frame, solver>>

Next ==
  \/ \E v \in Savings : SetSavings(v)
  \/ \E t \in Timings : SetTiming(t)
  \/ \E my \in MaxYearsArgs, adj \in BOOLEAN : CallSimulate(my, adj)
  \/ \E my \in MaxYearsArgs : CallYearsUntilDepletion(my)
  \/ SimMonth
  \/ SimDepleted
  \/ SimRaise
  \/ SimExit
  \/ \E y \in SolverYears : CallClosedForm(y)
  \/ \E y \in SolverYears, t \in Tols, mi \in MaxIters : CallSolver(y, t, mi)
  \/ SolveIterate
  \/ SolveConverged
  \/ SolveRaise
  \/ SolveExit

Spec == Init /\ [][Next]_vars


(***************************************************************************)
(* The cross-check of the two estimates: the solver called with its default *)
(* tolerance and iterations, for the representative horizons, on plans of  *)
(* no return and no inflation.                                             *)
(***************************************************************************)
Horizons == {5, 10, 20, 30}

CrossPlans ==
  { Plan(0, w, [r |-> 0, g |-> 0, tax |-> None, age |-> None], t, None, 20) :
      w \in {100, 40000}, t \in Timings }

InitCross ==
  /\ params \in CrossPlans
  /\ pc = "idle"
  /\ call = None
  /\ frame = None
  /\ solver = None
  /\ ret = None

NextCross ==
  \/ \E y \in Horizons : CallSolver(Some(y), DefaultTol, DefaultMaxIter)
  \/ SolveIterate
  \/ SolveConverged
  \/ SolveRaise
  \/ SolveExit

SpecCross == InitCross /\ [][NextCross]_vars

(***************************************************************************)
(* Properties.                                                             *)
(***************************************************************************)

\* A call of one of the functions fns has ended.
Completed(fns) ==
  pc = "idle" /\ call # None /\ ret # None /\ Val(call).fn \in fns

SimFns == {"simulate_retirement", "years_until_depletion"}
SolverFn == {"required_initial_for_horizon_via_simulation"}

\* The balance of the i-th snapshot of result r.
BalanceAt(r, i) == r.snapshots[i].balance

\* The case of C1: no return, no inflation, withdrawal at the start of the
\* month, no yearly withdrawal, savings a positive multiple of the monthly
\* withdrawal, and months enough to reach the depletion.
C1_Case ==
  /\ Completed({"simulate_retirement"})
  /\ LET c == Val(call) IN
     /\ c.params.annual_return_nominal = 0
     /\ c.params.annual_inflation = 0
     /\ c.params.withdrawal_timing = "start"
     /\ c.params.yearly_withdrawal = None
     /\ c.params.monthly_withdrawal > 0
     /\ c.params.current_savings > 0
     /\ c.params.current_savings % c.params.monthly_withdrawal = 0
     /\ c.max_years * 12 >= c.params.current_savings \div c.params.monthly_withdrawal

C1_Quotient == Val(call).params.current_savings \div Val(call).params.monthly_withdrawal

\* C1 as stated: in that case the run is depleted, the balance is first <= 0 at
\* month floor(savings / withdrawal), and months_lasted is that quotient.
C1_Original ==
  C1_Case =>
    /\ Val(ret).kind = "returned"
    /\ Val(ret).value.depleted
    /\ Len(Val(ret).value.snapshots) = C1_Quotient
    /\ Val(ret).value.months_lasted = C1_Quotient

\* C1 (amended): in that case the run is depleted, the balance is first <= 0 at
\* month floor(savings / withdrawal), where it is exactly 0, and months_lasted
\* is one less than that quotient (the months before the depleting one).
C1_DepletesAtQuotient ==
  C1_Case =>
    /\ Val(ret).kind = "returned"
    /\ Val(ret).value.depleted
    /\ Len(Val(ret).value.snapshots) = C1_Quotient
    /\ \A i \in 1..(C1_Quotient - 1) : BalanceAt(Val(ret).value, i) > 0
    /\ BalanceAt(Val(ret).value, C1_Quotient) = 0
    /\ Val(ret).value.final_balance = 0
    /\ Val(ret).value.months_lasted = C1_Quotient - 1

C1_Witness ==
  /\ C1_Case
  /\ Val(ret).value.depleted
  /\ C1_Quotient > 12


\* The plan of the ended call with its savings replaced by v.
WithSavings(v) == [Val(call).params EXCEPT !.current_savings = v]

\* A call of years_until_depletion has returned a value.
C2_Case ==
  /\ Completed({"years_until_depletion"})
  /\ Val(ret).kind = "returned"

\* C2: monotonicity.  When years_until_depletion has returned for a plan, the
\* same call on a plan that differs only by larger (smaller) savings returns
\* no fewer (no more) years.
C2_Monotone ==
  C2_Case =>
    \A v \in Savings :
      /\ v >= Val(call).params.current_savings =>
           FracLeq(Val(ret).value,
                   years_until_depletion(WithSavings(v), Val(call).max_years))
      /\ v <= Val(call).params.current_savings =>
           FracLeq(years_until_depletion(WithSavings(v), Val(call).max_years),
                   Val(ret).value)

\* A plan that ran dry, while larger savings last strictly longer.
C2_Witness ==
  /\ C2_Case
  /\ Val(call).params.yearly_withdrawal # None
  /\ Val(ret).value.num > 0
  /\ \E v \in Savings :
       /\ v > Val(call).params.current_savings
       /\ ~FracLeq(years_until_depletion(WithSavings(v), Val(call).max_years),
                   Val(ret).value)

\* The ended call's simulation, had the plan withdrawn at the end of the month.
C3_EndRun ==
  simulate_retirement([Val(call).params EXCEPT !.withdrawal_timing = "end"],
                      Val(call).max_years, Val(call).adjust).value

\* A simulation with timing "start" and a positive return has returned.
C3_Case ==
  /\ Completed({"simulate_retirement"})
  /\ Val(call).params.withdrawal_timing = "start"
  /\ monthly_nominal_return(Val(call).params) > 0
  /\ Val(ret).kind = "returned"

\* C3 as stated: the "end" run lasts at least as long and ends with at least
\* as large a final balance as the "start" run.
C3_Original ==
  C3_Case =>
    /\ FracLeq(Val(ret).value.years_lasted, C3_EndRun.years_lasted)
    /\ Val(ret).value.final_balance <= C3_EndRun.final_balance

\* C3 (amended): with a positive return and non-negative savings and
\* withdrawals, the "end" run lasts at least as long as the "start" run, and
\* its final balance is at least as large when both runs stop at the same month.
C3_EndLastsLonger ==
  C3_Case =>
    /\ FracLeq(Val(ret).value.years_lasted, C3_EndRun.years_lasted)
    /\ Len(C3_EndRun.snapshots) = Len(Val(ret).value.snapshots) =>
         Val(ret).value.final_balance <= C3_EndRun.final_balance

\* The "start" run is depleted and the "end" run lasts strictly longer.
C3_Witness ==
  /\ C3_Case
  /\ Val(ret).value.depleted
  /\ ~FracLeq(C3_EndRun.years_lasted, Val(ret).value.years_lasted)


\* C5: every call of simulate_retirement on a plan whose timing is neither
\* "start" nor "end" ends with the configuration error, whatever max_years is,
\* and has appended no snapshot.
C5_InvalidTimingRaises ==
  (Completed(SimFns) /\ ~ValidTiming(Val(call).params)) =>
    /\ Val(ret).kind = "raised"
    /\ Val(frame).snapshots = <<>>

\* C8: purity.  A call leaves the caller's plan as it was passed in, while it
\* runs and after it has ended, and the outcome of a simulation is the outcome
\* its arguments alone determine, whatever calls came before it.
C8_Pure ==
  /\ (call # None /\ (pc # "idle" \/ ret # None)) => params = Val(call).params
  /\ Completed(SimFns) =>
       Val(ret) = ReturnTo(Val(call),
                           simulate_retirement(Val(call).params, Val(call).max_years,
                                               Val(call).adjust))

\* A simulation has ended whose running monthly and yearly withdrawals were
\* scaled away from the plan's amounts.
C8_Witness ==
  /\ Completed({"simulate_retirement"})
  /\ Val(ret).kind = "returned"
  /\ Val(frame).monthly_withdrawal > params.monthly_withdrawal
  /\ params.yearly_withdrawal # None
  /\ Val(frame).adj_yearly_withdrawal > Val(params.yearly_withdrawal)

\* A simulation has returned a result.
C9_Case ==
  /\ Completed({"simulate_retirement"})
  /\ Val(ret).kind = "returned"

\* C9: the depletion rule.  A depleted result has m >= 1 snapshots, m within
\* the months asked for, of which only the last has a balance <= 0; it reports
\* months_lasted = m - 1, years_lasted = (m - 1) / 12 and the last balance,
\* unclamped, as final_balance.  A result that is not depleted has
\* max_years * 12 snapshots, all of a balance > 0, and reports
\* months_lasted = max_years * 12 and years_lasted = max_years.
C9_DepletionRule ==
  C9_Case =>
    LET r == Val(ret).value
        n == Len(r.snapshots)
        months == Val(call).max_years * 12
    IN  /\ \A i \in 1..n : r.snapshots[i].month_index = i
        /\ r.depleted =>
             /\ 1 <= n /\ n <= months
             /\ \A i \in 1..(n - 1) : BalanceAt(r, i) > 0
             /\ BalanceAt(r, n) <= 0
             /\ r.months_lasted = n - 1
             /\ r.years_lasted = Years(n - 1)
             /\ r.final_balance = BalanceAt(r, n)
        /\ ~r.depleted =>
             /\ n = months
             /\ \A i \in 1..n : BalanceAt(r, i) > 0
             /\ r.months_lasted = months
             /\ r.years_lasted.num = Val(call).max_years * r.years_lasted.den

\* A run depleted after its first year, on a negative final balance.
C9_Witness ==
  /\ C9_Case
  /\ Val(ret).value.depleted
  /\ Val(ret).value.final_balance < 0
  /\ Val(ret).value.months_lasted > 12

\* Another run that used up all its months.
C9_WitnessNotDepleted ==
  /\ C9_Case
  /\ ~Val(ret).value.depleted
  /\ Val(call).max_years > 0


\* The solver is running or has ended, and S is its locals.
InSolver == call # None /\ Val(call).fn \in SolverFn /\ solver # None

\* C6 as stated: the solver never ends with an error, whatever the plan is.
C6_Original ==
  Completed(SolverFn) => Val(ret).kind = "returned"

\* C6 (amended): on a plan whose timing is "start" or "end" the solver begins
\* at most max_iter iterations, runs one simulation in each, and ends with a
\* value, never an error; when the convergence test has not succeeded the value
\* is the midpoint of the final bracket, returned after max_iter iterations,
\* and when it has succeeded the value is the midpoint it tested last.
C6_AlwaysAValue ==
  (InSolver /\ ValidTiming(Val(call).params)) =>
    LET S == Val(solver) IN
    /\ 0 <= S.it /\ S.it <= Max(0, S.max_iter)
    /\ S.runs = S.it
    /\ Completed(SolverFn) =>
         /\ Val(ret).kind = "returned"
         /\ ~S.converged =>
              /\ S.it = S.max_iter
              /\ Val(ret).value = Midpoint(S.low, S.high)
         /\ S.converged => Val(ret).value = Midpoint(S.prev_low, S.prev_high)

\* The solver used up its iterations without meeting the tolerance.
C6_Witness ==
  /\ Completed(SolverFn)
  /\ ValidTiming(Val(call).params)
  /\ ~Val(solver).converged
  /\ Val(solver).it = MaxIterArg
  /\ Val(solver).high - Val(solver).low > 0

\* C7: with max_iter = 0 the solver returns the midpoint of the initial
\* bracket, low = 0 and high = max(1, 2 * closed form), and runs no simulation.
C7_ZeroIterations ==
  (Completed(SolverFn) /\ Val(call).max_iter = 0) =>
    /\ Val(ret) =
         Returned(Midpoint(0,
           Max(1, 2 * required_initial_for_horizon_closed_form(Val(call).params,
                                                               Val(call).years))))
    /\ Val(solver).runs = 0
    /\ Val(solver).low = 0
    /\ Val(solver).high = Val(solver).high0

\* Such a call has ended, on a plan whose closed form is positive.
C7_Witness ==
  /\ Completed(SolverFn)
  /\ Val(call).max_iter = 0
  /\ Val(call).years = None
  /\ Val(ret).kind = "returned"
  /\ Val(ret).value > 1

\* years_lasted of the simulation the solver runs for current_savings = v.
C10_YearsLasted(v) ==
  simulate_retirement(TestParams(Val(call).params, v),
                      Val(solver).N_years + 5, TRUE).value.years_lasted

\* The solver is in or past its loop, on a plan with a valid timing.
C10_Case == InSolver /\ ValidTiming(Val(call).params)

\* What C10 and its amendment share: the bracket stays ordered within the initial
\* one, a high the loop assigned lasts longer than the horizon, a low it assigned
\* does not, and the value returned lies in the initial bracket.
C10_Bracket ==
  LET S == Val(solver) IN
  /\ 0 <= S.low /\ S.low <= S.high /\ S.high <= S.high0
  /\ S.high_set => FracGt(C10_YearsLasted(S.high), S.N_years)
  /\ S.low_set => FracLe(C10_YearsLasted(S.low), S.N_years)
  /\ Completed(SolverFn) =>
       /\ Val(ret).kind = "returned"
       /\ 0 <= Val(ret).value /\ Val(ret).value <= S.high0

\* C10 as stated: moreover each iteration leaves high - low at exactly half of
\* what it was.
C10_Original ==
  C10_Case =>
    /\ C10_Bracket
    /\ Val(solver).it > 0 =>
         2 * (Val(solver).high - Val(solver).low)
           = Val(solver).prev_high - Val(solver).prev_low

\* C10 (amended): moreover each iteration leaves high - low at half of what it
\* was up to the rounding of mid: at the half rounded down or rounded up.
C10_BracketInvariant ==
  C10_Case =>
    /\ C10_Bracket
    /\ Val(solver).it > 0 =>
         LET w == Val(solver).prev_high - Val(solver).prev_low
         IN  Val(solver).high - Val(solver).low \in {w \div 2, w - (w \div 2)}

\* The loop has assigned both ends of the bracket.
C10_Witness ==
  /\ C10_Case
  /\ Val(solver).low_set
  /\ Val(solver).high_set
  /\ Val(solver).it >= 3


\* The solver has returned a value for a plan of no return, no inflation, no
\* yearly withdrawal and a positive monthly withdrawal, called with the default
\* tolerance and iterations.
C4_Case ==
  /\ Completed(SolverFn)
  /\ Val(ret).kind = "returned"
  /\ Val(call).params.annual_return_nominal = 0
  /\ Val(call).params.annual_inflation = 0
  /\ Val(call).params.yearly_withdrawal = None
  /\ Val(call).params.monthly_withdrawal > 0
  /\ Val(call).tol = DefaultTol
  /\ Val(call).max_iter = DefaultMaxIter
  /\ Val(call).years # None

C4_ClosedForm ==
  required_initial_for_horizon_closed_form(Val(call).params, Val(call).years)

\* |a - b| <= b / k.
WithinOneIn(k, a, b) == k * Abs(a - b) <= b

\* C4 as stated: for each of the horizons 5, 10, 20 and 30 the solver's value is
\* within 1% of the closed form.
C4_Original ==
  (C4_Case /\ Val(Val(call).years) \in Horizons) =>
    WithinOneIn(100, Val(ret).value, C4_ClosedForm)

\* C4 (amended): on such a plan the solver's value is monthly_withdrawal *
\* (12 * Y + 1), to within 1% of one monthly withdrawal, which is one monthly
\* withdrawal above the closed form monthly_withdrawal * 12 * Y: within 1% of
\* the closed form for Y in {10, 20, 30}, and for Y = 5 within 2% but not
\* within 1%.
C4_OneWithdrawalAbove ==
  (C4_Case /\ Val(Val(call).years) \in Horizons) =>
    LET Y == Val(Val(call).years)
        w == Val(call).params.monthly_withdrawal
        v == Val(ret).value
    IN  /\ C4_ClosedForm = w * 12 * Y
        /\ WithinOneIn(100, v - w * (12 * Y + 1) + w, w)
        /\ Y \in {10, 20, 30} => WithinOneIn(100, v, C4_ClosedForm)
        /\ Y = 5 => /\ WithinOneIn(50, v, C4_ClosedForm)
                    /\ ~WithinOneIn(100, v, C4_ClosedForm)

\* The solver has converged for the horizon of 30 years.
C4_Witness ==
  /\ C4_Case
  /\ Val(Val(call).years) = 30
  /\ Val(solver).converged

====
